---- MODULE Spec2Model ----
(***************************************************************************)
(* Gerador de QR codes: the React component App of src/src/App.tsx (the    *)
(* fixed-secret variant) and of src/unnamed/part_000 (the password         *)
(* variant).  The component's useState cells are the variables; every      *)
(* handler is cut at its await points, each piece being one action.        *)
(* Strings whose characters matter (file text, lines, identifiers) are     *)
(* sequences of one-character strings.                                     *)
(***************************************************************************)
EXTENDS Integers, Sequences, FiniteSets, TLC

VARIABLES variant, password, file, fileContent, error, debugInfo, currentBatch,
          isProcessing, runs, downloads, console

vars == <<variant, password, file, fileContent, error, debugInfo, currentBatch,
          isProcessing, runs, downloads, console>>

----------------------------------------------------------------------------
(* Bounds of the model *)

\* longest file text of the parser specification
MaxTextLen == 6
\* a run of generateAndDownloadQRCodes starts only while fewer than MaxRuns
\* earlier runs have ended
MaxRuns == 1

(* Program constants *)

\* const BATCH_SIZE = 2000; scaled so that several batches fit the model
BATCH_SIZE == 2
\* significand of the JavaScript Number parseInt returns: 53 bits in
\* IEEE-754 binary64, scaled because TLC's integers are 32 bits wide
MantissaBits == 3

----------------------------------------------------------------------------
(* Characters and the string functions the handlers use *)

NL == "\n"
Digit == {"0", "1", "2", "3", "4", "5", "6", "7", "8", "9"}
\* the members of the class \s (and of what trim() removes) the model draws
WhiteSpace == {" ", "\t", "\r", NL}

Min(a, b) == IF a < b THEN a ELSE b

\* text.split("\n")
RECURSIVE Split(_)
Split(text) ==
  IF \A k \in 1..Len(text) : text[k] # NL
  THEN <<text>>
  ELSE LET k == CHOOSE j \in 1..Len(text) :
                  text[j] = NL /\ \A h \in 1..(j - 1) : text[h] # NL
       IN <<SubSeq(text, 1, k - 1)>> \o Split(SubSeq(text, k + 1, Len(text)))

\* line.trim()
Trim(line) ==
  LET keep == {k \in 1..Len(line) : line[k] \notin WhiteSpace}
  IN IF keep = {} THEN <<>>
     ELSE SubSeq(line, CHOOSE a \in keep : \A b \in keep : a <= b,
                       CHOOSE a \in keep : \A b \in keep : a >= b)

IsNotWhiteSpace(c) == c \notin WhiteSpace
\* line.replace(/\s/g, "")
StripWs(line) == SelectSeq(line, IsNotWhiteSpace)

\* /^\d+$/.test(number)
IsDigits(number) == Len(number) > 0 /\ \A k \in 1..Len(number) : number[k] \in Digit

NonEmpty(line) == Len(line) > 0
\* the lines of the file, each without leading and trailing white space and
\* without internal white space as well: a mutation of Lines
LinesStripped(text) ==
  LET raw == Split(text)
  IN SelectSeq([k \in 1..Len(raw) |-> StripWs(raw[k])], NonEmpty)
\* text.split("\n").map((line) => line.trim()).filter((line) => line.length > 0)
Lines(text) ==
  LET raw == Split(text)
  IN SelectSeq([k \in 1..Len(raw) |-> Trim(raw[k])], NonEmpty)

\* position of the first line the validation loop throws on, 0 when none
FirstInvalid(lines) ==
  LET bad == {k \in 1..Len(lines) : ~IsDigits(StripWs(lines[k]))}
  IN IF bad = {} THEN 0 ELSE CHOOSE a \in bad : \A b \in bad : a <= b

----------------------------------------------------------------------------
(* Values of the message cells *)

NoError == [kind |-> "", line |-> <<>>]
\* the message quoting the stripped number instead of the line: a mutation
InvalidLineErrorStripped(line) ==
  [kind |-> "Linha contem caracteres invalidos", line |-> StripWs(line)]
\* new Error(`Linha contém caracteres inválidos: "${line}"`)
InvalidLineError(line) ==
  [kind |-> "Linha contem caracteres invalidos", line |-> line]
NoFileError == [kind |-> "Por favor, carregue um arquivo primeiro", line |-> <<>>]
NoPasswordError ==
  [kind |-> "Por favor, digite uma senha para gerar os QR codes", line |-> <<>>]
GenericError == [kind |-> "Erro ao gerar ou baixar QR codes", line |-> <<>>]

Info(kind, a, b, c, d) == [kind |-> kind, a |-> a, b |-> b, c |-> c, d |-> d]
NoInfo == Info("", 0, 0, 0, 0)
LoadedInfo(n) == Info("Arquivo carregado", n, 0, 0, 0)
ProcessingInfo(batch, total, from, to) == Info("Processando lote", batch, total, from, to)
DownloadingInfo(batch, total, from, to) == Info("Baixando lote", batch, total, from, to)
WaitingInfo(batch) == Info("Lote concluido. Aguardando", batch, 0, 0, 0)
DoneInfo(items, batches) == Info("Processamento concluido", items, batches, 0, 0)

\* event.target.files?.[0] of the file input: undefined, or a file of some text
NoFile == [chosen |-> FALSE, text |-> <<>>]
File(text) == [chosen |-> TRUE, text |-> text]

\* currentBatch: null, or { start, end }
NullBatch == [start |-> 0, end |-> 0]

----------------------------------------------------------------------------
(* Hashing, encoding, sorting and packaging *)

Variants == {"fixed", "password"}
\* the built-in secret `VAPWHV` of the fixed variant
FixedSecret == <<"V", "A", "P", "W", "H", "V">>
\* what the user may type into the password field
Passwords == {<<>>, <<"p">>}

\* CryptoJS.SHA256(combinedString).toString(): an uninterpreted digest
generateHash(number, secret) == <<"sha256", number \o secret>>
\* `https://check.vant.plus/${number}-${hash}`
Url(number, secret) == <<"https://check.vant.plus/", number, "-", generateHash(number, secret)>>
\* the data URI QRCode.toDataURL resolves to
generateQRCode(url) == <<"data:image/png;base64,", url>>
\* one element pushed to batchQRCodes
QRCodeData(number, secret) ==
  [url |-> Url(number, secret),
   qrDataUrl |-> generateQRCode(Url(number, secret)),
   number |-> number]

RECURSIVE Pow2(_)
Pow2(e) == IF e = 0 THEN 1 ELSE 2 * Pow2(e - 1)

\* the mathematical value of a string of decimal digits
RECURSIVE Value(_)
Value(number) ==
  IF Len(number) = 0 THEN 0
  ELSE 10 * Value(SubSeq(number, 1, Len(number) - 1))
       + (CHOOSE d \in 0..9 : ToString(d) = number[Len(number)])

\* the Number nearest to v: MantissaBits significant bits, ties to even
RoundToNumber(v) ==
  IF v < Pow2(MantissaBits) THEN v
  ELSE LET e == CHOOSE x \in 1..20 :
                  /\ v \div Pow2(x) < Pow2(MantissaBits)
                  /\ v \div Pow2(x - 1) >= Pow2(MantissaBits)
           q == v \div Pow2(e)
           r == v % Pow2(e)
           half == Pow2(e - 1)
       IN IF r > half \/ (r = half /\ q % 2 = 1)
          THEN (q + 1) * Pow2(e) ELSE q * Pow2(e)

\* parseInt(number) of a string of digits
ParseInt(number) == RoundToNumber(Value(number))

\* (a, b) => parseInt(a.number) - parseInt(b.number)
Compare(a, b) == ParseInt(a.number) - ParseInt(b.number)

\* qrCodes.sort(compare): Array.prototype.sort is stable
InsertSorted(sorted, x) ==
  LET k == CHOOSE j \in 0..Len(sorted) :
             /\ \A h \in 1..j : Compare(sorted[h], x) <= 0
             /\ j < Len(sorted) => Compare(sorted[j + 1], x) > 0
  IN SubSeq(sorted, 1, k) \o <<x>> \o SubSeq(sorted, k + 1, Len(sorted))
RECURSIVE Sort(_)
Sort(qrCodes) ==
  IF Len(qrCodes) = 0 THEN <<>>
  ELSE InsertSorted(Sort(SubSeq(qrCodes, 1, Len(qrCodes) - 1)), qrCodes[Len(qrCodes)])

\* `${qrCode.number}.png` (fixed variant), `qrcode_${qrCode.number}.png` (password)
FileName(v, number) == <<IF v = "password" THEN "qrcode_" ELSE "", number, ".png">>

\* folder.file(name, data): a name already in the folder keeps its place and
\* takes the new data
AddFile(files, name, data) ==
  IF \E k \in 1..Len(files) : files[k].name = name
  THEN [k \in 1..Len(files) |->
          IF files[k].name = name THEN [name |-> name, data |-> data] ELSE files[k]]
  ELSE Append(files, [name |-> name, data |-> data])

RECURSIVE AddFiles(_, _, _)
AddFiles(files, v, qrCodes) ==
  IF Len(qrCodes) = 0 THEN files
  ELSE AddFiles(AddFile(files, FileName(v, qrCodes[1].number), qrCodes[1].qrDataUrl[2]),
                v, Tail(qrCodes))

\* the zip downloadBatch builds before it awaits zip.generateAsync: its folder,
\* the identifiers of the records it was given and of the records in the order
\* of insertion, and the files the folder holds in the end
downloadBatch(v, qrCodes, start, end) ==
  [folderName |-> <<"QR Codes ", start, " - ", end>>,
   qrCodes |-> [k \in 1..Len(qrCodes) |-> qrCodes[k].number],
   inserted |-> [k \in 1..Len(qrCodes) |-> Sort(qrCodes)[k].number],
   files |-> AddFiles(<<>>, v, Sort(qrCodes))]

----------------------------------------------------------------------------
(* The batch arithmetic of generateAndDownloadQRCodes *)

\* Math.floor in place of Math.ceil: a mutation of TotalBatches
TotalBatchesFloor(totalItems) == totalItems \div BATCH_SIZE
\* Math.ceil(totalItems / BATCH_SIZE)
TotalBatches(totalItems) == (totalItems + BATCH_SIZE - 1) \div BATCH_SIZE
\* batchNumber * BATCH_SIZE
StartIndex(batchNumber) == batchNumber * BATCH_SIZE
\* Math.min(startIndex + BATCH_SIZE, totalItems)
EndIndex(batchNumber, totalItems) == Min(StartIndex(batchNumber) + BATCH_SIZE, totalItems)
\* a delay after every batch, the last one too: a mutation of NeedsDelay
NeedsDelayAlways(batchNumber, totalBatches) == batchNumber < totalBatches
\* if (batchNumber < totalBatches - 1)
NeedsDelay(batchNumber, totalBatches) == batchNumber < totalBatches - 1

\* the secret the hash of a run uses
Secret(v, pw) == IF v = "password" THEN pw ELSE FixedSecret

\* the early returns of generateAndDownloadQRCodes, the list check left out:
\* a mutation of MissingPrecondition
MissingPasswordOnly(v, pw, list) ==
  IF v = "password" /\ Len(pw) = 0 THEN NoPasswordError ELSE NoError
\* if (!password) ... return; if (fileContent.length === 0) ... return;
MissingPrecondition(v, pw, list) ==
  IF v = "password" /\ Len(pw) = 0 THEN NoPasswordError
  ELSE IF Len(list) = 0 THEN NoFileError
  ELSE NoError

----------------------------------------------------------------------------
(* One run of generateAndDownloadQRCodes.  The closure of the render the    *)
(* click happened in holds fileContent and password, so a run works on the  *)
(* list and the secret it captured (list, secret).  ranges, encoded and     *)
(* trace record what the run has done so far.                               *)

NoZip == [folderName |-> <<>>, qrCodes |-> <<>>, inserted |-> <<>>, files |-> <<>>]

Event(ev, batch) == [ev |-> ev, batch |-> batch]

\* the run as the loop body leaves it at the first await of processBatch
BeginBatch(run, batchNumber) ==
  [run EXCEPT !.pc = "generating",
              !.batchNumber = batchNumber,
              !.i = StartIndex(batchNumber),
              !.batchQRCodes = <<>>,
              !.zip = NoZip,
              !.ranges = Append(@, <<StartIndex(batchNumber) + 1,
                                     EndIndex(batchNumber, Len(run.list))>>),
              !.encoded = Append(@, <<>>),
              !.trace = Append(@, Event("generation started", batchNumber + 1))]

NewRun(list, secret) ==
  [pc |-> "idle", list |-> list, secret |-> secret,
   totalBatches |-> TotalBatches(Len(list)),
   batchNumber |-> 0, i |-> 0, batchQRCodes |-> <<>>, zip |-> NoZip,
   ranges |-> <<>>, encoded |-> <<>>, trace |-> <<>>]

InFlight(run) == run.pc \in {"generating", "packaging", "waiting"}
Ended(run) == run.pc \in {"done", "failed"}

\* the flag a failed or finished run leaves, the finally block left out:
\* a mutation of Finally
FinallyMissing(flag) == flag
\* finally { setIsProcessing(false); }
Finally(flag) == FALSE

\* the button rendered and clickable while a run is in flight: a mutation
ButtonEnabledAlways == Len(fileContent) > 0
\* {fileContent.length > 0 && (<button ... disabled={isProcessing}>)}
ButtonEnabled == Len(fileContent) > 0 /\ ~isProcessing

----------------------------------------------------------------------------
(* The state machine *)

Init ==
  /\ variant \in Variants
  /\ password = <<>>
  /\ file = NoFile
  /\ fileContent = <<>>
  /\ error = NoError
  /\ debugInfo = NoInfo
  /\ currentBatch = NullBatch
  /\ isProcessing = FALSE
  /\ runs = <<>>
  /\ downloads = <<>>
  /\ console = <<>>

\* onChange={(e) => setPassword(e.target.value)}
SetPassword(p) ==
  /\ variant = "password"
  /\ p # password
  /\ password' = p
  /\ UNCHANGED <<variant, file, fileContent, error, debugInfo, currentBatch,
                 isProcessing, runs, downloads, console>>

\* handleFileUpload for a change event without a file: if (!file) return;
handleFileUploadNoFile ==
  /\ file # NoFile
  /\ file' = NoFile
  /\ UNCHANGED <<variant, password, fileContent, error, debugInfo, currentBatch,
                 isProcessing, runs, downloads, console>>

\* handleFileUpload for a file of this text; readOk: file.text() resolved.
\* Before its await the handler reads and writes no state, so the whole handler
\* is the step taken when the read settles.
handleFileUpload(text, readOk) ==
  /\ file' = File(text)
  /\ LET lines == Lines(text)
         bad == FirstInvalid(lines)
     IN IF ~readOk
        THEN /\ error' = [kind |-> "file.text() rejected", line |-> <<>>]
             /\ fileContent' = <<>>
             /\ UNCHANGED debugInfo
        ELSE IF bad # 0
        THEN /\ error' = InvalidLineError(lines[bad])
             /\ fileContent' = <<>>
             /\ UNCHANGED debugInfo
        ELSE /\ fileContent' = lines
             /\ debugInfo' = LoadedInfo(Len(lines))
             /\ error' = NoError
  /\ UNCHANGED <<variant, password, currentBatch, isProcessing, runs, downloads,
                 console>>

\* generateAndDownloadQRCodes from its call to the first await
generateAndDownloadQRCodes ==
  IF MissingPrecondition(variant, password, fileContent) # NoError
  THEN /\ error' = MissingPrecondition(variant, password, fileContent)
       /\ UNCHANGED <<variant, password, file, fileContent, debugInfo, currentBatch,
                      isProcessing, runs, downloads, console>>
  ELSE LET run == NewRun(fileContent, Secret(variant, password))
       IN /\ Cardinality({r \in 1..Len(runs) : Ended(runs[r])}) < MaxRuns
          /\ error' = NoError
          /\ IF run.totalBatches = 0
             THEN \* the loop body never runs and nothing is awaited
                  /\ runs' = Append(runs, [run EXCEPT !.pc = "done"])
                  /\ isProcessing' = Finally(TRUE)
                  /\ debugInfo' = DoneInfo(Len(run.list), run.totalBatches)
                  /\ currentBatch' = NullBatch
             ELSE /\ runs' = Append(runs, BeginBatch(run, 0))
                  /\ isProcessing' = TRUE
                  /\ currentBatch' = [start |-> 1, end |-> EndIndex(0, Len(run.list))]
                  /\ debugInfo' = ProcessingInfo(1, run.totalBatches, 1,
                                                 EndIndex(0, Len(run.list)))
          /\ UNCHANGED <<variant, password, file, fileContent, downloads, console>>

\* onClick={generateAndDownloadQRCodes} of the rendered, enabled button
ClickGenerate == ButtonEnabled /\ generateAndDownloadQRCodes

\* catch (err) { setError(...); console.error(err); } finally { ... }
Abort(r, run, cause) ==
  /\ runs' = [runs EXCEPT ![r] = [run EXCEPT !.pc = "failed"]]
  /\ error' = GenericError
  /\ console' = Append(console, cause)
  /\ isProcessing' = Finally(isProcessing)

\* processBatch: await generateQRCode(url) settles for item i (ok: it resolved).
\* After the last item of the batch, downloadBatch runs up to its await of
\* zip.generateAsync (folderOk: zip.folder returned a folder).
GenerateItem(r, ok, folderOk) ==
  /\ r \in 1..Len(runs)
  /\ runs[r].pc = "generating"
  /\ LET run == runs[r]
         number == StripWs(run.list[run.i + 1])
         codes == Append(run.batchQRCodes, QRCodeData(number, run.secret))
         end == EndIndex(run.batchNumber, Len(run.list))
         pushed == [run EXCEPT !.i = run.i + 1,
                               !.batchQRCodes = codes,
                               !.encoded[Len(run.encoded)] = Append(@, run.i)]
         generated == [pushed EXCEPT
                         !.trace = Append(@, Event("generated", run.batchNumber + 1))]
     IN IF ~ok
        THEN /\ Abort(r, run, "QRCode.toDataURL rejected")
             /\ UNCHANGED <<debugInfo>>
        ELSE IF run.i + 1 < end
        THEN /\ runs' = [runs EXCEPT ![r] = pushed]
             /\ UNCHANGED <<error, debugInfo, isProcessing, console>>
        ELSE /\ debugInfo' = DownloadingInfo(run.batchNumber + 1, run.totalBatches,
                                             StartIndex(run.batchNumber) + 1, end)
             /\ IF ~folderOk
                THEN Abort(r, generated, "Erro ao criar pasta ZIP")
                ELSE /\ runs' = [runs EXCEPT ![r] =
                           [generated EXCEPT
                              !.pc = "packaging",
                              !.zip = downloadBatch(variant, codes,
                                        StartIndex(run.batchNumber) + 1, end)]]
                     /\ UNCHANGED <<error, isProcessing, console>>
  /\ UNCHANGED <<variant, password, file, fileContent, currentBatch, downloads>>

\* downloadBatch: await zip.generateAsync settles (ok: it resolved); the link is
\* clicked, and the loop either starts the delay or ends the run
Package(r, ok) ==
  /\ r \in 1..Len(runs)
  /\ runs[r].pc = "packaging"
  /\ LET run == runs[r]
         saved == [run EXCEPT
                     !.trace = Append(@, Event("downloaded", run.batchNumber + 1))]
     IN IF ~ok
        THEN /\ Abort(r, run, "zip.generateAsync rejected")
             /\ UNCHANGED <<debugInfo, currentBatch, downloads>>
        ELSE /\ downloads' = Append(downloads, run.zip)
             /\ UNCHANGED <<error, console>>
             /\ IF NeedsDelay(run.batchNumber, run.totalBatches)
                THEN /\ debugInfo' = WaitingInfo(run.batchNumber + 1)
                     /\ runs' = [runs EXCEPT ![r] =
                           [saved EXCEPT
                              !.pc = "waiting",
                              !.trace = Append(@, Event("delay started",
                                                        run.batchNumber + 1))]]
                     /\ UNCHANGED <<currentBatch, isProcessing>>
                ELSE IF run.batchNumber + 1 < run.totalBatches
                THEN \* no delay, the next iteration starts at once
                     /\ runs' = [runs EXCEPT ![r] = BeginBatch(saved, run.batchNumber + 1)]
                     /\ currentBatch' =
                          [start |-> StartIndex(run.batchNumber + 1) + 1,
                           end |-> EndIndex(run.batchNumber + 1, Len(run.list))]
                     /\ debugInfo' =
                          ProcessingInfo(run.batchNumber + 2, run.totalBatches,
                                         StartIndex(run.batchNumber + 1) + 1,
                                         EndIndex(run.batchNumber + 1, Len(run.list)))
                     /\ UNCHANGED isProcessing
                ELSE /\ debugInfo' = DoneInfo(Len(run.list), run.totalBatches)
                     /\ currentBatch' = NullBatch
                     /\ isProcessing' = Finally(isProcessing)
                     /\ runs' = [runs EXCEPT ![r] = [saved EXCEPT !.pc = "done"]]
  /\ UNCHANGED <<variant, password, file, fileContent>>

\* setTimeout(resolve, BATCH_DELAY) fires: the next iteration of the loop, or,
\* when the delay followed the last batch, the end of the run
DelayElapsed(r) ==
  /\ r \in 1..Len(runs)
  /\ runs[r].pc = "waiting"
  /\ LET run == runs[r]
         next == run.batchNumber + 1
         woke == [run EXCEPT !.trace = Append(@, Event("delay elapsed", next))]
     IN IF next < run.totalBatches
        THEN /\ runs' = [runs EXCEPT ![r] = BeginBatch(woke, next)]
             /\ currentBatch' = [start |-> StartIndex(next) + 1,
                                 end |-> EndIndex(next, Len(run.list))]
             /\ debugInfo' = ProcessingInfo(next + 1, run.totalBatches,
                                            StartIndex(next) + 1,
                                            EndIndex(next, Len(run.list)))
             /\ UNCHANGED isProcessing
        ELSE /\ debugInfo' = DoneInfo(Len(run.list), run.totalBatches)
             /\ currentBatch' = NullBatch
             /\ isProcessing' = Finally(isProcessing)
             /\ runs' = [runs EXCEPT ![r] = [woke EXCEPT !.pc = "done"]]
  /\ UNCHANGED <<variant, password, file, fileContent, error, downloads, console>>

\* four files the user may choose:
\*   "9", "8"                        two lines, one batch
\*   "10", "9", "1 0", "10\r", "7", ""  five identifiers, three batches
\*   " ", ""                         blank lines only
\*   "1", " a1 "                     an invalid second line
SampleTexts ==
  { <<"9", NL, "8">>,
    <<"1", "0", NL, "9", NL, "1", " ", "0", NL, "1", "0", "\r", NL, "7", NL>>,
    <<" ", NL>>,
    <<"1", NL, " ", "a", "1", " ">> }

Next ==
  \/ \E p \in Passwords : SetPassword(p)
  \/ handleFileUploadNoFile
  \/ \E text \in SampleTexts, readOk \in BOOLEAN : handleFileUpload(text, readOk)
  \/ ClickGenerate
  \/ \E r \in 1..Len(runs), ok \in BOOLEAN, folderOk \in BOOLEAN : GenerateItem(r, ok, folderOk)
  \/ \E r \in 1..Len(runs), ok \in BOOLEAN : Package(r, ok)
  \/ \E r \in 1..Len(runs) : DelayElapsed(r)

Spec == Init /\ [][Next]_vars

----------------------------------------------------------------------------
(* generateAndDownloadQRCodes called by any caller that keeps the trigger   *)
(* disabled while a run is in flight, whether or not a list is loaded       *)

CallGenerate == ~isProcessing /\ generateAndDownloadQRCodes

NextCall == Next \/ CallGenerate

SpecCall == Init /\ [][NextCall]_vars

----------------------------------------------------------------------------
(* The parser alone: one upload of any text of at most MaxTextLen           *)
(* characters, into the component as constructed or into the component      *)
(* holding a list loaded before                                             *)

ParserChars == {"1", " ", "a", NL}
AllTexts == UNION {[1..n -> ParserChars] : n \in 0..MaxTextLen}

PriorText == <<"1", NL, "1", " ", "1">>

ParserReady ==
  /\ error = NoError
  /\ runs = <<>>
  /\ \/ file = NoFile /\ fileContent = <<>> /\ debugInfo = NoInfo
     \/ /\ file = File(PriorText)
        /\ fileContent = Lines(PriorText)
        /\ debugInfo = LoadedInfo(Len(Lines(PriorText)))

InitParser ==
  /\ variant \in Variants
  /\ password = <<>>
  /\ currentBatch = NullBatch
  /\ isProcessing = FALSE
  /\ runs = <<>>
  /\ downloads = <<>>
  /\ console = <<>>
  /\ error = NoError
  /\ file \in {NoFile, File(PriorText)}
  /\ fileContent = IF file = NoFile THEN <<>> ELSE Lines(PriorText)
  /\ debugInfo = IF file = NoFile THEN NoInfo ELSE LoadedInfo(Len(Lines(PriorText)))

UploadAnyText ==
  /\ ParserReady
  /\ \E text \in AllTexts, readOk \in BOOLEAN : handleFileUpload(text, readOk)

SpecParser == InitParser /\ [][UploadAnyText]_vars

----------------------------------------------------------------------------
(* Operators the properties are stated with *)

IsPrefix(s, t) == Len(s) <= Len(t) /\ SubSeq(t, 1, Len(s)) = s

RECURSIVE Flatten(_)
Flatten(ss) == IF Len(ss) = 0 THEN <<>> ELSE ss[1] \o Flatten(Tail(ss))

\* the least m with m * BATCH_SIZE >= n, that is ceil(n / BATCH_SIZE)
CeilBatches(n) ==
  CHOOSE m \in 0..n : m * BATCH_SIZE >= n /\ (m = 0 \/ (m - 1) * BATCH_SIZE < n)

\* the order of events of a complete run of m batches
RECURSIVE Schedule(_, _)
Schedule(k, m) ==
  IF k > m THEN <<>>
  ELSE <<Event("generation started", k), Event("generated", k), Event("downloaded", k)>>
       \o (IF k < m THEN <<Event("delay started", k), Event("delay elapsed", k)>>
           ELSE <<>>)
       \o Schedule(k + 1, m)

Count(s, x) == Cardinality({k \in 1..Len(s) : s[k] = x})
IsPermutation(s, t) ==
  /\ Len(s) = Len(t)
  /\ \A k \in 1..Len(s) : Count(s, s[k]) = Count(t, s[k])

IsDelayStart(e) == e.ev = "delay started"
IsDownload(e) == e.ev = "downloaded"

\* the lines of a file as the file holds them, the blank ones left out
IsNonBlank(line) == Len(StripWs(line)) > 0
NonBlankRaw(text) == SelectSeq(Split(text), IsNonBlank)
IsOffending(line) == IsNonBlank(line) /\ ~IsDigits(StripWs(line))
Offending(text) == SelectSeq(Split(text), IsOffending)

----------------------------------------------------------------------------
(* C1: a run that completes on a list of N >= 1 identifiers has processed
   exactly ceil(N / BATCH_SIZE) batches; the list indexes 0..N-1 are encoded
   once each, in input order, each in the batch whose display range holds it;
   the display ranges are non-empty, at most BATCH_SIZE long, start at 1, end
   at N and each starts right after the one before. *)
C1_BatchesPartitionTheList ==
  \A r \in 1..Len(runs) :
    runs[r].pc = "done" =>
      LET run == runs[r]
          n == Len(run.list)
          m == Len(run.ranges)
      IN /\ n >= 1
         /\ m = CeilBatches(n)
         /\ Len(run.encoded) = m
         /\ Flatten(run.encoded) = [k \in 1..n |-> k - 1]
         /\ \A k \in 1..m :
              /\ run.ranges[k][1] <= run.ranges[k][2]
              /\ run.ranges[k][2] - run.ranges[k][1] + 1 <= BATCH_SIZE
              /\ run.encoded[k] =
                   [j \in 1..(run.ranges[k][2] - run.ranges[k][1] + 1) |->
                      run.ranges[k][1] + j - 2]
         /\ run.ranges[1][1] = 1
         /\ run.ranges[m][2] = n
         /\ \A k \in 1..(m - 1) : run.ranges[k + 1][1] = run.ranges[k][2] + 1

\* a run over five identifiers has completed in three batches
C1_Witness ==
  \E r \in 1..Len(runs) :
    runs[r].pc = "done" /\ Len(runs[r].list) = 5 /\ Len(runs[r].ranges) = 3

(* C6: the events of every run follow the order generation started k,
   generated k, downloaded k, delay started k, delay elapsed k, generation
   started k+1, with no delay after the last batch; a completed run of M
   batches has waited exactly M - 1 times. *)
C6_DelayBetweenBatches ==
  \A r \in 1..Len(runs) :
    LET run == runs[r]
        m == CeilBatches(Len(run.list))
    IN /\ IsPrefix(run.trace, Schedule(1, m))
       /\ run.pc = "done" =>
            /\ run.trace = Schedule(1, m)
            /\ Len(SelectSeq(run.trace, IsDelayStart)) = m - 1

\* a run of three batches has completed, having waited twice
C6_Witness ==
  \E r \in 1..Len(runs) :
    /\ runs[r].pc = "done"
    /\ Len(runs[r].ranges) = 3
    /\ Len(SelectSeq(runs[r].trace, IsDelayStart)) = 2

(* C9: at most one run is in flight; the processing flag is true exactly
   while a run is in flight, and while it is true the generate button cannot
   start a run. *)
C9_OneRunAtATime ==
  /\ Cardinality({r \in 1..Len(runs) : InFlight(runs[r])}) <= 1
  /\ isProcessing <=> \E r \in 1..Len(runs) : InFlight(runs[r])
  /\ isProcessing => ~ENABLED ClickGenerate

\* a run is in its inter-batch wait while the button is rendered
C9_Witness ==
  /\ isProcessing
  /\ Len(fileContent) > 0
  /\ \E r \in 1..Len(runs) : runs[r].pc = "waiting"

(* C5: the step in which a run fails sets the generic error, logs one cause,
   resets the processing flag and leaves the archives downloaded so far as
   they are, the failed run having downloaded exactly the batches before the
   failing one; a failed run takes no further step; a cause is logged only
   when a run fails; no step removes a downloaded archive. *)
C5_FailureAbortsTheRun ==
  [][ /\ \A r \in 1..Len(runs) :
           /\ (InFlight(runs[r]) /\ runs'[r].pc = "failed") =>
                /\ error' = GenericError
                /\ isProcessing' = FALSE
                /\ downloads' = downloads
                /\ Len(console') = Len(console) + 1
                /\ Len(SelectSeq(runs'[r].trace, IsDownload)) = runs'[r].batchNumber
           /\ runs[r].pc = "failed" => runs'[r] = runs[r]
      /\ IsPrefix(downloads, downloads')
      /\ console' # console =>
           \E r \in 1..Len(runs) : InFlight(runs[r]) /\ runs'[r].pc = "failed"
    ]_vars

\* a run has failed in its second or third batch, after a download
C5_Witness ==
  \E r \in 1..Len(runs) :
    /\ runs[r].pc = "failed"
    /\ runs[r].batchNumber >= 1
    /\ Len(downloads) = runs[r].batchNumber
    /\ error = GenericError
    /\ ~isProcessing

(* C4: a call of generateAndDownloadQRCodes while the identifier list is
   empty or, in the password variant, while the password is empty only sets
   the error message: no run starts, nothing is downloaded, and the
   processing flag, the current batch and the progress message stay as they
   were. *)
C4_MissingPreconditionOnlySetsError ==
  [][ ( /\ generateAndDownloadQRCodes
        /\ Len(fileContent) = 0 \/ (variant = "password" /\ Len(password) = 0) )
      => /\ error' \in {NoFileError, NoPasswordError}
         /\ UNCHANGED <<runs, downloads, console, isProcessing, currentBatch,
                        debugInfo, fileContent>>
    ]_vars

\* generation was triggered after a file of blank lines only had been loaded
C4_Witness ==
  /\ error = NoFileError
  /\ debugInfo = LoadedInfo(0)
  /\ Len(fileContent) = 0
  /\ runs = <<>>
  /\ ~isProcessing

(* C2 as claimed: an upload whose text has a non-blank line that is not all
   digits once its white space is stripped empties the identifier list and
   sets the error that quotes the first such line as the file holds it. *)
C2_QuotesTheOriginalLine ==
  [][ ( /\ handleFileUpload(file'.text, TRUE)
        /\ Len(Offending(file'.text)) > 0 )
      => /\ fileContent' = <<>>
         /\ error'.kind = "Linha contem caracteres invalidos"
         /\ error'.line = Offending(file'.text)[1]
    ]_vars

(* C2 as amended: such an upload empties the identifier list, also when a
   list was loaded before, leaves the progress message alone, and sets the
   error that quotes the first offending line without its leading and
   trailing white space (its internal white space kept). *)
C2_QuotesTheTrimmedLine ==
  [][ ( /\ handleFileUpload(file'.text, TRUE)
        /\ Len(Offending(file'.text)) > 0 )
      => /\ fileContent' = <<>>
         /\ error'.kind = "Linha contem caracteres invalidos"
         /\ error'.line = Trim(Offending(file'.text)[1])
         /\ debugInfo' = debugInfo
    ]_vars

\* over a list of two lines loaded before, a file whose first offending line
\* is " a 1" was rejected: the list is empty, the message quotes "a 1"
C2_Witness ==
  /\ file = File(<<"1", NL, " ", "a", " ", "1">>)
  /\ fileContent = <<>>
  /\ error.line = <<"a", " ", "1">>
  /\ debugInfo = LoadedInfo(2)

(* C3 as claimed: an upload whose non-blank lines are all digits once their
   white space is stripped stores one entry per non-blank line, in file order,
   each entry the line with all its white space removed, so a string of
   digits. *)
C3_StoresStrippedLines ==
  [][ ( /\ handleFileUpload(file'.text, TRUE)
        /\ Len(Offending(file'.text)) = 0 )
      => /\ Len(fileContent') = Len(NonBlankRaw(file'.text))
         /\ \A k \in 1..Len(fileContent') :
              /\ fileContent'[k] = StripWs(NonBlankRaw(file'.text)[k])
              /\ IsDigits(fileContent'[k])
    ]_vars

(* C3 as amended: such an upload stores one entry per non-blank line, in file
   order, each entry the line without its leading and trailing white space
   (its internal white space kept), so a string of digits once its white space
   is stripped; the error is cleared and the count of lines reported. *)
C3_StoresTrimmedLines ==
  [][ ( /\ handleFileUpload(file'.text, TRUE)
        /\ Len(Offending(file'.text)) = 0 )
      => /\ Len(fileContent') = Len(NonBlankRaw(file'.text))
         /\ \A k \in 1..Len(fileContent') :
              /\ fileContent'[k] = Trim(NonBlankRaw(file'.text)[k])
              /\ IsDigits(StripWs(fileContent'[k]))
         /\ error' = NoError
         /\ debugInfo' = LoadedInfo(Len(NonBlankRaw(file'.text)))
    ]_vars

\* the file " 1", "1 1" was accepted as the entries "1" and "1 1"
C3_Witness ==
  /\ file = File(<<" ", "1", NL, "1", " ", "1">>)
  /\ fileContent = << <<"1">>, <<"1", " ", "1">> >>
  /\ error = NoError

(* C7 as claimed: in every downloaded archive the images were inserted in
   ascending numeric value of the identifier, whatever the identifiers'
   length and the order they were generated in, and the records inserted are
   a permutation of the records of the batch. *)
C7_InsertedInNumericOrder ==
  \A d \in 1..Len(downloads) :
    /\ \A k \in 1..(Len(downloads[d].inserted) - 1) :
         Value(downloads[d].inserted[k]) <= Value(downloads[d].inserted[k + 1])
    /\ IsPermutation(downloads[d].inserted, downloads[d].qrCodes)

(* C8 as claimed: every downloaded archive holds one folder named
   "QR Codes {start} - {end}" with as many image files as the batch has
   records, end - start + 1, also when an identifier occurs twice. *)
C8_OneFilePerRecord ==
  \A d \in 1..Len(downloads) :
    /\ downloads[d].folderName[1] = "QR Codes "
    /\ \A k \in 1..Len(downloads[d].files) :
         \E j \in 1..Len(downloads[d].qrCodes) :
           downloads[d].files[k].name[2] = downloads[d].qrCodes[j]
    /\ Len(downloads[d].files) = Len(downloads[d].qrCodes)
    /\ Len(downloads[d].files) =
         downloads[d].folderName[4] - downloads[d].folderName[2] + 1

(* C10 as claimed: while a run is in flight, a step that is not a step of a
   run changes neither the identifier list nor the progress message, the
   error or the current batch. *)
C10_RunOwnsListAndProgress ==
  [][ ( /\ \E r \in 1..Len(runs) : InFlight(runs[r])
        /\ runs' = runs )
      => UNCHANGED <<fileContent, error, debugInfo, currentBatch>>
    ]_vars

====
